---------------------------- MODULE Spec2Model ----------------------------
(***************************************************************************)
(* LiteHyperBus: the two HyperRAM controllers of litehyperbus/core.        *)
(*                                                                         *)
(*   HyperRAM    (hyperbus.py)        fixed-timeline sequencer, sys_clk/4  *)
(*   HyperRAMX2  (hyperram_ddrx2.py)  burst FSM, 2:1 clocking              *)
(*                                                                         *)
(* Both are synchronous designs.  One step of the model is one sys_clk     *)
(* tick: every register takes the value its sync statements compute from   *)
(* the registers and the inputs of the current tick (a later statement     *)
(* overrides an earlier one), and the environment presents the inputs of   *)
(* the next tick.  Combinational signals (ca, dq.o, bus.dat_r, the FSM's   *)
(* bus.ack) are operators over the current registers and inputs.           *)
(***************************************************************************)
EXTENDS Integers, Sequences, FiniteSets, TLC

VARIABLES
    core,            \* which controller is instantiated: "HyperRAM" | "HyperRAMX2"
    host,            \* environment policy: "free" | "hold" | "steady" | "strobing"
    dw,              \* external data bus width (len(pads.dq)); 8 or 16
    \* ---- inputs of the current tick (Wishbone master and device pads)
    bus_cyc, bus_stb, bus_we, bus_adr, bus_dat_w, bus_sel, bus_cti,
    dq_i, rwds_i,
    \* ---- registers both controllers have
    clk, cs, dq_oe, rwds_oe,
    \* ---- registers of HyperRAM
    clk_phase, counter, ca_active, sr, dqi, rwdso, bus_ack,
    \* ---- registers of HyperRAMX2
    state, anon, sr_in, sr_out, sr_rwds_in, sr_rwds_out, timeout_counter,
    \* ---- history: the command word last loaded into the output shift register
    ca_sent,
    \* ---- history: ticks with bus.ack asserted since the burst FSM last left
    \*      IDLE, recorded for the host that keeps its request ("steady")
    acks,
    \* ---- the command encoder run on its own (specification SpecCA)
    enc_pc, enc_ca

inputs  == <<bus_cyc, bus_stb, bus_we, bus_adr, bus_dat_w, bus_sel, bus_cti, dq_i, rwds_i>>
common  == <<clk, cs, dq_oe, rwds_oe>>
regsA   == <<clk_phase, counter, ca_active, sr, dqi, rwdso, bus_ack>>
regsX2  == <<state, anon, sr_in, sr_out, sr_rwds_in, sr_rwds_out, timeout_counter>>
config  == <<core, host, dw>>
encoder == <<enc_pc, enc_ca>>
vars    == <<config, inputs, common, regsA, regsX2, ca_sent, acks, encoder>>

---------------------------------------------------------------------------
(* Signals                                                                 *)
(*                                                                         *)
(* A signal of at most 30 bits (adr, sel, cti, rwds, the counters) is the  *)
(* natural number it holds.  A wider signal (ca, the shift registers,      *)
(* dat_w, dat_r, dq) is the sequence of its bytes, least significant byte  *)
(* first; every slice the controllers take of one lies on byte boundaries. *)

Bit == {0, 1}

Not(b) == 1 - b

RECURSIVE Pow2(_)
Pow2(n) == IF n = 0 THEN 1 ELSE 2 * Pow2(n-1)

\* x[lo:hi] of a number
Bits(x, lo, hi) == (x \div Pow2(lo)) % Pow2(hi - lo)

\* x[i] of a number
BitAt(x, i) == (x \div Pow2(i)) % 2

\* ~x of an n-bit number
Inv(x, n) == Pow2(n) - 1 - x

\* x with bit i replaced by b
SetBit(x, i, b) == x - BitAt(x, i) * Pow2(i) + b * Pow2(i)

\* n zero bits, n a multiple of 8
Zeros(n) == [k \in 1..(n \div 8) |-> 0]

\* Cat(a, b): a in the low bits, b above
Cat(a, b) == a \o b

\* v[lo:hi] of a byte sequence, lo and hi multiples of 8
Slice(v, lo, hi) == SubSeq(v, (lo \div 8) + 1, hi \div 8)

\* v[i] of a byte sequence
BitOf(v, i) == BitAt(v[(i \div 8) + 1], i % 8)

\* the number v[lo:hi] of a byte sequence holds, any lo and hi (hi - lo <= 30)
RECURSIVE Field(_, _, _)
Field(v, lo, hi) == IF hi <= lo THEN 0 ELSE BitOf(v, lo) + 2 * Field(v, lo + 1, hi)

\* the n-byte sequence of a signal given as the function of its bits
Pack(f, n) ==
    [k \in 1..n |-> f[8*(k-1)] + 2*f[8*(k-1)+1] + 4*f[8*(k-1)+2] + 8*f[8*(k-1)+3]
                    + 16*f[8*(k-1)+4] + 32*f[8*(k-1)+5] + 64*f[8*(k-1)+6]
                    + 128*f[8*(k-1)+7]]

\* the 32-bit signal of two 16-bit halves
Word32(hi, lo) == <<lo % 256, lo \div 256, hi % 256, hi \div 256>>

---------------------------------------------------------------------------
(* Configuration                                                           *)

\* latency=6: the constructors' default
latency == 6

latency_x2 == 6

\* wishbone.Interface(): 32-bit data, 4 byte selects; 30 address bits by
\* default, 22 in HyperRAMX2
adr_width_A == 30

adr_width_X2 == 22

adr_width == IF core = "HyperRAM" THEN adr_width_A ELSE adr_width_X2

---------------------------------------------------------------------------
(* Command generation                                                      *)

\* hyperbus.py: ca[47] = ~we, ca[45] = 1, and by dw
\*   8:  ca[16:45] = adr[2:], ca[1:3] = adr[0:], ca[0] = 0
\*   16: ca[16:45] = adr[3:], ca[1:3] = adr[1:], ca[0] = adr[0]
\* (a slice shorter than its target is zero-extended, a longer one truncated)
\* faulty variant: R/W# not inverted
HyperRAM_ca_bit_rw_swapped(w, adr, we, i) ==
    CASE i = 47              -> we
      [] i = 45              -> 1
      [] i >= 16 /\ i <= 44  -> BitAt(Bits(adr, IF w = 8 THEN 2 ELSE 3, adr_width_A), i - 16)
      [] i >= 1 /\ i <= 2    -> BitAt(Bits(adr, IF w = 8 THEN 0 ELSE 1, adr_width_A), i - 1)
      [] i = 0               -> IF w = 8 THEN 0 ELSE BitAt(adr, 0)
      [] OTHER               -> 0

\* faulty variant: the 8-bit address split used for both widths
HyperRAM_ca_bit_same_split(w, adr, we, i) ==
    CASE i = 47              -> Not(we)
      [] i = 45              -> 1
      [] i >= 16 /\ i <= 44  -> BitAt(Bits(adr, 2, adr_width_A), i - 16)
      [] i >= 1 /\ i <= 2    -> BitAt(Bits(adr, IF w = 8 THEN 0 ELSE 1, adr_width_A), i - 1)
      [] i = 0               -> IF w = 8 THEN 0 ELSE BitAt(adr, 0)
      [] OTHER               -> 0

HyperRAM_ca_bit(w, adr, we, i) ==
    CASE i = 47              -> Not(we)
      [] i = 45              -> 1
      [] i >= 16 /\ i <= 44  -> BitAt(Bits(adr, IF w = 8 THEN 2 ELSE 3, adr_width_A), i - 16)
      [] i >= 1 /\ i <= 2    -> BitAt(Bits(adr, IF w = 8 THEN 0 ELSE 1, adr_width_A), i - 1)
      [] i = 0               -> IF w = 8 THEN 0 ELSE BitAt(adr, 0)
      [] OTHER               -> 0

HyperRAM_ca(w, adr, we) ==
    Pack([i \in 0..47 |-> HyperRAM_ca_bit(w, adr, we, i)], 6)

\* hyperram_ddrx2.py: ca[47] = ~we, ca[45] = 1,
\*   ca[16:35] = adr[2:21], ca[1:3] = adr[0:2], ca[0] = 0
HyperRAMX2_ca_bit(adr, we, i) ==
    CASE i = 47              -> Not(we)
      [] i = 45              -> 1
      [] i >= 16 /\ i <= 34  -> BitAt(Bits(adr, 2, 21), i - 16)
      [] i >= 1 /\ i <= 2    -> BitAt(Bits(adr, 0, 2), i - 1)
      [] i = 0               -> 0
      [] OTHER               -> 0

HyperRAMX2_ca(adr, we) ==
    Pack([i \in 0..47 |-> HyperRAMX2_ca_bit(adr, we, i)], 6)

\* the combinational signal ca of the instantiated controller
ca == IF core = "HyperRAM" THEN HyperRAM_ca(dw, bus_adr, bus_we)
                           ELSE HyperRAMX2_ca(bus_adr, bus_we)

---------------------------------------------------------------------------
(* Input values the environment draws from                                 *)

\* The host of SpecA and SpecX2 may change every input on every tick; the
\* data inputs then come from one-value sets, since no control decision of
\* either controller reads adr, dat_w, sel or dq.i.  The host of SpecAHold
\* and SpecX2Hold holds its request, chosen from the larger sets.
AllOnes(n) == Pow2(n) - 1

AdrFree == {0}

AdrHold == IF core = "HyperRAM" THEN {0, Pow2(adr_width - 1) + 15} ELSE {0}

DatFree == {Word32(4660, 22136)}

DatHold == IF core = "HyperRAM" THEN {Word32(0, 43981), Word32(4660, 22136)}
           ELSE {Word32(4660, 22136)}

SelFree == {15}

SelHold == IF core = "HyperRAM" THEN {15, 6, 13} ELSE {15}

\* classic cycle (0b000) and incrementing burst (0b010)
CtiSet == {0, 2}

\* device data: pads.dq.i has dw bits, the DDRx2 PHY's dq.i has 32
DqFree == IF core = "HyperRAM" THEN {Zeros(dw)} ELSE {Word32(0, 0)}

DqHold == IF core = "HyperRAM" THEN {Zeros(dw)}
          ELSE {Word32(4660, 22136), Word32(51966, 47806)}

\* device RWDS as the PHY samples it, 4 samples per tick: idle or toggling
RwdsSet == {0, 10}

---------------------------------------------------------------------------
(* HyperRAM: the fixed-timeline controller (hyperbus.py)                   *)

\* lat = (latency * 8) - 4
lat == (latency * 8) - 4

\* the delta-time sequence: <<DT, actions>>
\* faulty variant: a single half-word beat in 16-bit mode
dt_seq_data_one_beat(w) ==
    IF w = 8 THEN << <<2, "data0">>, <<2, "data1">>, <<2, "data2">>, <<2, "data3">> >>
             ELSE << <<2, "data0">> >>

dt_seq_data(w) ==
    IF w = 8 THEN << <<2, "data0">>, <<2, "data1">>, <<2, "data2">>, <<2, "data3">> >>
             ELSE << <<2, "data0">>, <<2, "data1">> >>

\* faulty variant: bus.ack held for two ticks
dt_seq_end_ack_held == << <<2, "release">>, <<2, "ack">>, <<1, "ack_end">>, <<0, "end">> >>

dt_seq_end == << <<2, "release">>, <<1, "ack">>, <<1, "ack_end">>, <<0, "end">> >>

dt_seq(w) ==
    << <<3, "lead_in">>, <<12, "command">>, <<lat, "latency">> >>
        \o dt_seq_data(w) \o dt_seq_end

\* t_seq: event k of the sequence fires at the sum of the DTs before it
RECURSIVE t_sum(_, _)
t_sum(w, k) == IF k = 1 THEN 0 ELSE t_sum(w, k-1) + dt_seq(w)[k-1][1]

t_seq_tab == [w \in {8, 16} |-> [k \in 1..Len(dt_seq(w)) |-> t_sum(w, k)]]

t_seq(w, k) == t_seq_tab[w][k]

\* migen.genlib.misc.timeline: lastevent, and the width of its counter
lastevent(w) == t_seq(w, Len(dt_seq(w)))

RECURSIVE bits_for(_)
bits_for(n) == IF n < 2 THEN 1 ELSE 1 + bits_for(n \div 2)

\* the time at which the schedule's event with these actions fires
t_of(w, name) ==
    t_seq(w, CHOOSE k \in 1..Len(dt_seq(w)) : dt_seq(w)[k][2] = name)

\* faulty variant: the schedule starts at any clock phase
trigger_any_phase == bus_cyc = 1 /\ bus_stb = 1

\* timeline's trigger: bus.cyc & bus.stb & (clk_phase == 1)
trigger == bus_cyc = 1 /\ bus_stb = 1 /\ clk_phase = 1

\* the registers the schedule's actions assign
RegsA == [cs |-> cs, dq_oe |-> dq_oe, rwds_oe |-> rwds_oe, sr |-> sr,
          ca_active |-> ca_active, rwdso |-> rwdso, bus_ack |-> bus_ack,
          ca_sent |-> ca_sent]

\* faulty variant: 8 bits per shift in the data phase too
sr_shift_always_8 ==
    IF clk_phase = 0 \/ clk_phase = 2
    THEN Cat(Slice(dqi, 0, 8), Slice(sr, 0, 40))
    ELSE sr

\* the data shift register: shift on 0 and 180 degrees; 8 bits per shift
\* during Command-Address, dw bits otherwise
sr_shift ==
    IF clk_phase = 0 \/ clk_phase = 2
    THEN IF ca_active = 1 THEN Cat(Slice(dqi, 0, 8), Slice(sr, 0, 40))
                          ELSE Cat(dqi, Slice(sr, 0, 48 - dw))
    ELSE sr

\* the actions of one entry of the sequence, applied to the registers r
seq_action(w, name, r) ==
    CASE name = "command" ->
            [r EXCEPT !.cs = 1, !.dq_oe = 1, !.sr = ca, !.ca_active = 1, !.ca_sent = ca]
      [] name = "latency" ->
            [r EXCEPT !.dq_oe = 0, !.ca_active = 0]
      [] name = "data0" ->
            [r EXCEPT !.dq_oe = bus_we,
                      !.sr = Cat(Zeros(16), bus_dat_w),
                      !.rwds_oe = bus_we,
                      !.rwdso = IF w = 8
                                THEN SetBit(r.rwdso, 0, Not(BitAt(bus_sel, 3)))
                                ELSE SetBit(SetBit(r.rwdso, 1, Not(BitAt(bus_sel, 3))),
                                            0, Not(BitAt(bus_sel, 2)))]
      [] name = "data1" ->
            [r EXCEPT !.rwdso = IF w = 8
                                THEN SetBit(r.rwdso, 0, Not(BitAt(bus_sel, 2)))
                                ELSE SetBit(SetBit(r.rwdso, 1, Not(BitAt(bus_sel, 1))),
                                            0, Not(BitAt(bus_sel, 0)))]
      [] name = "data2" ->
            [r EXCEPT !.rwdso = SetBit(r.rwdso, 0, Not(BitAt(bus_sel, 1)))]
      [] name = "data3" ->
            [r EXCEPT !.rwdso = SetBit(r.rwdso, 0, Not(BitAt(bus_sel, 0)))]
      [] name = "release" ->
            [r EXCEPT !.cs = 0, !.rwds_oe = 0, !.dq_oe = 0]
      [] name = "ack" ->
            [r EXCEPT !.bus_ack = 1]
      [] name = "ack_end" ->
            [r EXCEPT !.bus_ack = 0]
      [] OTHER -> r

\* timeline's get_cond: the event at time 0 needs the trigger
get_cond(t) == IF t = 0 THEN trigger /\ counter = 0 ELSE counter = t

\* sync = [If(get_cond(e), *e[1]) for e in events], in order
RECURSIVE timeline_events(_, _, _)
timeline_events(w, k, r) ==
    IF k > Len(dt_seq(w)) THEN r
    ELSE timeline_events(w, k + 1,
            IF get_cond(t_seq(w, k)) THEN seq_action(w, dt_seq(w)[k][2], r) ELSE r)

\* faulty variant: the counter advances only while cyc and stb are asserted
timeline_counter_gated(w) ==
    LET last == lastevent(w)
        wrap == Pow2(bits_for(last))
        free == IF counter # 0
                THEN (IF bus_cyc = 1 /\ bus_stb = 1 THEN (counter + 1) % wrap ELSE counter)
                ELSE IF trigger THEN 1 ELSE counter
    IN  IF wrap # last + 1 /\ counter = last THEN 0 ELSE free

\* timeline's counterlogic, with the reset it inserts when the counter does
\* not overflow to 0 by itself
timeline_counter(w) ==
    LET last == lastevent(w)
        wrap == Pow2(bits_for(last))
        free == IF counter # 0 THEN (counter + 1) % wrap
                ELSE IF trigger THEN 1 ELSE counter
    IN  IF wrap # last + 1 /\ counter = last THEN 0 ELSE free

\* clk: set on 90 degrees if cs is set, cleared on 270 degrees
clk_gen == CASE clk_phase = 1 -> cs
             [] clk_phase = 3 -> 0
             [] OTHER         -> clk

\* combinational outputs
HyperRAM_dat_r == Slice(sr, 0, 32)

HyperRAM_dq_o == IF ca_active = 1 THEN Slice(sr, 40, 48) ELSE Slice(sr, 48 - dw, 48)

HyperRAM_rwds_o == rwdso

\* the inputs of the next tick
EnvA ==
    /\ bus_cyc' \in Bit
    /\ bus_stb' \in Bit
    /\ IF host = "free"
       THEN /\ bus_we' \in Bit
            /\ bus_adr' \in AdrFree
            /\ bus_dat_w' \in DatFree
            /\ bus_sel' \in SelFree
            /\ dq_i' \in DqFree
       ELSE /\ UNCHANGED <<bus_we, bus_adr, bus_dat_w, bus_sel>>
            /\ dq_i' \in DqHold
    /\ UNCHANGED <<bus_cti, rwds_i>>

\* one sys_clk tick of HyperRAM
TickA ==
    LET r == timeline_events(dw, 1, [RegsA EXCEPT !.sr = sr_shift])
    IN  /\ clk_phase' = (clk_phase + 1) % 4
        /\ clk' = clk_gen
        /\ dqi' = dq_i
        /\ cs' = r.cs
        /\ dq_oe' = r.dq_oe
        /\ rwds_oe' = r.rwds_oe
        /\ sr' = r.sr
        /\ ca_active' = r.ca_active
        /\ rwdso' = r.rwdso
        /\ bus_ack' = r.bus_ack
        /\ ca_sent' = r.ca_sent
        /\ counter' = timeline_counter(dw)
        /\ EnvA
        /\ UNCHANGED <<config, regsX2, encoder, acks>>

\* no schedule running and none started
A_Idle == core = "HyperRAM" /\ counter = 0 /\ ~trigger /\ TickA

\* a transaction is accepted: the schedule starts
A_Start == core = "HyperRAM" /\ counter = 0 /\ trigger /\ TickA

\* the schedule runs
A_Run == core = "HyperRAM" /\ counter # 0 /\ TickA

ResetX2 ==
    /\ state = "IDLE" /\ anon = 0
    /\ sr_in = Zeros(64) /\ sr_out = Zeros(64)
    /\ sr_rwds_in = 0 /\ sr_rwds_out = 0
    /\ timeout_counter = 0

ResetA ==
    /\ clk_phase = 0 /\ counter = 0 /\ ca_active = 0
    /\ sr = Zeros(48) /\ dqi = Zeros(dw) /\ rwdso = 0 /\ bus_ack = 0

ResetCommon ==
    /\ clk = 0 /\ cs = 0 /\ dq_oe = 0 /\ rwds_oe = 0
    /\ ca_sent = Zeros(48) /\ acks = 0
    /\ enc_pc = "idle" /\ enc_ca = Zeros(48)

InitA(h) ==
    /\ core = "HyperRAM" /\ host = h /\ dw \in {8, 16}
    /\ bus_cyc \in Bit /\ bus_stb \in Bit /\ bus_we \in Bit
    /\ bus_adr \in (IF h = "free" THEN AdrFree ELSE AdrHold)
    /\ bus_dat_w \in (IF h = "free" THEN DatFree ELSE DatHold)
    /\ bus_sel \in (IF h = "free" THEN SelFree ELSE SelHold)
    /\ dq_i \in (IF h = "free" THEN DqFree ELSE DqHold)
    /\ bus_cti = 0 /\ rwds_i = 0
    /\ ResetCommon /\ ResetA /\ ResetX2

NextA == A_Idle \/ A_Start \/ A_Run

\* HyperRAM with a host free to change every input on every tick
SpecA == InitA("free") /\ [][NextA]_vars

\* HyperRAM with a host that holds we, adr, dat_w and sel
SpecAHold == InitA("hold") /\ [][NextA]_vars

---------------------------------------------------------------------------
(* HyperRAMX2: the burst FSM (hyperram_ddrx2.py)                           *)

\* fsm.delayed_enter(name, target, delay): name and delay-1 anonymous states
\* after it, one tick each; anon is the position in that chain
delay_LATENCY_WAIT == latency_x2 - 3

delay_WAIT == 10

\* the timeout of READ-ACK: timeout_counter > 20
timeout_limit == 20

\* timeout_counter = Signal(6)
timeout_width == 6

\* the ready indicator: phy.rwds.i[3]
ready == BitAt(rwds_i, 3)

\* combinational outputs
X2_bus_ack ==
    IF state = "READ-WRITE" /\ bus_we = 1 THEN 1
    ELSE IF state = "READ-ACK" /\ BitAt(rwds_i, 3) = 1 THEN 1
    ELSE 0

\* bus.dat_r = Cat(phy.dq.i[-16:], sr_in[:16])
X2_dat_r == Cat(Slice(dq_i, 16, 32), Slice(sr_in, 0, 16))

X2_dq_o == Slice(sr_out, 32, 64)

X2_rwds_o == Bits(sr_rwds_out, 4, 8)

\* the shift registers' sync statements, which an FSM NextValue overrides
sr_out_shift == Cat(Zeros(32), Slice(sr_out, 0, 32))

\* faulty variant: sr_in does not shift
sr_in_shift_stuck == sr_in

sr_in_shift == Cat(dq_i, Slice(sr_in, 0, 32))

sr_rwds_in_shift == rwds_i + 16 * Bits(sr_rwds_in, 0, 4)

sr_rwds_out_shift == rwds_i + 16 * Bits(sr_rwds_out, 0, 4)

\* the inputs of the next tick.  The "steady" host keeps one request asserted
\* (cyc, stb, we, cti, adr, dat_w and sel as they are); the "strobing" host
\* keeps stb asserted and its data inputs as they are, and changes cyc, we
\* and cti as it likes.
EnvX2 ==
    /\ CASE host = "steady"   -> UNCHANGED <<bus_cyc, bus_stb>>
         [] host = "strobing" -> bus_cyc' \in Bit /\ UNCHANGED bus_stb
         [] OTHER             -> bus_cyc' \in Bit /\ bus_stb' \in Bit
    /\ rwds_i' \in RwdsSet
    /\ CASE host = "free" ->
            /\ bus_we' \in Bit
            /\ bus_cti' \in CtiSet
            /\ bus_adr' \in AdrFree
            /\ bus_dat_w' \in DatFree
            /\ bus_sel' \in SelFree
            /\ dq_i' \in DqFree
         [] host = "strobing" ->
            /\ bus_we' \in Bit
            /\ bus_cti' \in CtiSet
            /\ UNCHANGED <<bus_adr, bus_dat_w, bus_sel, dq_i>>
         [] OTHER ->
            /\ UNCHANGED <<bus_we, bus_cti, bus_adr, bus_dat_w, bus_sel>>
            /\ dq_i' \in DqHold

\* the acknowledgment count saturates at MaxAcks ("MaxAcks or more")
MaxAcks == 2

acks_count ==
    IF state = "IDLE" \/ host # "steady" THEN 0
    ELSE IF acks + X2_bus_ack > MaxAcks THEN MaxAcks ELSE acks + X2_bus_ack

\* what every tick of HyperRAMX2 does besides the FSM's own assignments
TickX2 ==
    /\ core = "HyperRAMX2"
    /\ sr_in' = sr_in_shift
    /\ sr_rwds_in' = sr_rwds_in_shift
    /\ acks' = acks_count
    /\ EnvX2
    /\ UNCHANGED <<config, regsA, encoder>>

Goto(s) == state' = s /\ anon' = 0

X2_IDLE ==
    /\ state = "IDLE"
    /\ IF bus_cyc = 1 /\ bus_stb = 1
       THEN cs' = 1 /\ Goto("CA-SEND")
       ELSE cs' = cs /\ Goto("IDLE")
    /\ sr_out' = sr_out_shift
    /\ sr_rwds_out' = sr_rwds_out_shift
    /\ UNCHANGED <<clk, dq_oe, rwds_oe, timeout_counter, ca_sent>>
    /\ TickX2

X2_CA_SEND ==
    /\ state = "CA-SEND"
    /\ clk' = 1
    /\ dq_oe' = 1
    /\ sr_out' = Cat(Zeros(16), ca)
    /\ ca_sent' = ca
    /\ Goto("CA-WAIT")
    /\ sr_rwds_out' = sr_rwds_out_shift
    /\ UNCHANGED <<cs, rwds_oe, timeout_counter>>
    /\ TickX2

X2_CA_WAIT ==
    /\ state = "CA-WAIT"
    /\ timeout_counter' = 0
    /\ Goto("LATENCY")
    /\ sr_out' = sr_out_shift
    /\ sr_rwds_out' = sr_rwds_out_shift
    /\ UNCHANGED <<clk, cs, dq_oe, rwds_oe, ca_sent>>
    /\ TickX2

X2_LATENCY ==
    /\ state = "LATENCY"
    /\ dq_oe' = 0
    /\ Goto("LATENCY-WAIT")
    /\ sr_out' = sr_out_shift
    /\ sr_rwds_out' = sr_rwds_out_shift
    /\ UNCHANGED <<clk, cs, rwds_oe, timeout_counter, ca_sent>>
    /\ TickX2

\* one tick of a delayed_enter chain
delayed_enter(target, delay) ==
    IF anon = delay - 1 THEN Goto(target)
    ELSE state' = state /\ anon' = anon + 1

\* faulty variant: the latency wait one tick short
X2_LATENCY_WAIT_one_short ==
    /\ state = "LATENCY-WAIT"
    /\ delayed_enter("READ-WRITE-SETUP", delay_LATENCY_WAIT - 1)
    /\ sr_out' = sr_out_shift
    /\ sr_rwds_out' = sr_rwds_out_shift
    /\ UNCHANGED <<clk, cs, dq_oe, rwds_oe, timeout_counter, ca_sent>>
    /\ TickX2

X2_LATENCY_WAIT ==
    /\ state = "LATENCY-WAIT"
    /\ delayed_enter("READ-WRITE-SETUP", delay_LATENCY_WAIT)
    /\ sr_out' = sr_out_shift
    /\ sr_rwds_out' = sr_rwds_out_shift
    /\ UNCHANGED <<clk, cs, dq_oe, rwds_oe, timeout_counter, ca_sent>>
    /\ TickX2

X2_READ_WRITE_SETUP ==
    /\ state = "READ-WRITE-SETUP"
    /\ dq_oe' = bus_we
    /\ rwds_oe' = bus_we
    /\ Goto("READ-WRITE")
    /\ sr_out' = sr_out_shift
    /\ sr_rwds_out' = sr_rwds_out_shift
    /\ UNCHANGED <<clk, cs, timeout_counter, ca_sent>>
    /\ TickX2

\* READ-WRITE's NextState statements, the last one executed wins
\* faulty variant: cti ignored, a write never loops
READ_WRITE_next_no_burst ==
    IF bus_cyc = 0 THEN "CLEANUP"
    ELSE IF bus_we = 1 THEN "CLK-OFF"
    ELSE "READ-ACK"

\* faulty variant: a dropped cycle sends READ-WRITE straight to IDLE
READ_WRITE_next_cancel_to_idle ==
    IF bus_cyc = 0 THEN "IDLE"
    ELSE IF bus_we = 1 THEN (IF bus_cti = 2 THEN "READ-WRITE" ELSE "CLK-OFF")
    ELSE "READ-ACK"

READ_WRITE_next ==
    IF bus_cyc = 0 THEN "CLEANUP"
    ELSE IF bus_we = 1 THEN (IF bus_cti = 2 THEN "READ-WRITE" ELSE "CLK-OFF")
    ELSE "READ-ACK"

X2_READ_WRITE ==
    /\ state = "READ-WRITE"
    /\ Goto(READ_WRITE_next)
    /\ IF bus_we = 1
       THEN /\ dq_oe' = 1
            /\ sr_out' = Cat(Zeros(32), bus_dat_w)
            /\ sr_rwds_out' = 0 + 16 * Inv(Bits(bus_sel, 0, 4), 4)
       ELSE /\ dq_oe' = dq_oe
            /\ sr_out' = sr_out_shift
            /\ sr_rwds_out' = sr_rwds_out_shift
    /\ clk' = IF bus_cyc = 0 THEN 0 ELSE clk
    /\ UNCHANGED <<cs, rwds_oe, timeout_counter, ca_sent>>
    /\ TickX2

\* READ-ACK's NextState statements, the last one executed wins
\* faulty variant: ready does not end a non-burst read
READ_ACK_next_stays ==
    IF bus_cyc = 0 \/ timeout_counter > timeout_limit THEN "CLK-OFF"
    ELSE "READ-ACK"

\* faulty variant: timeout one tick early (>= instead of >)
READ_ACK_next_early ==
    IF bus_cyc = 0 \/ timeout_counter >= timeout_limit THEN "CLK-OFF"
    ELSE IF BitAt(rwds_i, 3) = 1 /\ bus_cti # 2 THEN "CLEANUP"
    ELSE "READ-ACK"

READ_ACK_next ==
    IF bus_cyc = 0 \/ timeout_counter > timeout_limit THEN "CLK-OFF"
    ELSE IF BitAt(rwds_i, 3) = 1 /\ bus_cti # 2 THEN "CLEANUP"
    ELSE "READ-ACK"

\* faulty variant: the timeout counter wraps before it reaches the limit
READ_ACK_timeout_counter_wraps ==
    IF BitAt(rwds_i, 3) = 1 THEN 0 ELSE (timeout_counter + 1) % 16

READ_ACK_timeout_counter ==
    IF BitAt(rwds_i, 3) = 1 THEN 0 ELSE (timeout_counter + 1) % Pow2(timeout_width)

X2_READ_ACK ==
    /\ state = "READ-ACK"
    /\ timeout_counter' = READ_ACK_timeout_counter
    /\ clk' = IF BitAt(rwds_i, 3) = 1 /\ bus_cti # 2 THEN 0 ELSE clk
    /\ Goto(READ_ACK_next)
    /\ sr_out' = sr_out_shift
    /\ sr_rwds_out' = sr_rwds_out_shift
    /\ UNCHANGED <<cs, dq_oe, rwds_oe, ca_sent>>
    /\ TickX2

X2_CLK_OFF ==
    /\ state = "CLK-OFF"
    /\ clk' = 0
    /\ Goto("CLEANUP")
    /\ sr_out' = sr_out_shift
    /\ sr_rwds_out' = sr_rwds_out_shift
    /\ UNCHANGED <<cs, dq_oe, rwds_oe, timeout_counter, ca_sent>>
    /\ TickX2

\* faulty variant: CLEANUP leaves the output enables as they are
X2_CLEANUP_keeps_oe ==
    /\ state = "CLEANUP"
    /\ cs' = 0
    /\ Goto("HOLD-WAIT")
    /\ sr_out' = sr_out_shift
    /\ sr_rwds_out' = sr_rwds_out_shift
    /\ UNCHANGED <<clk, dq_oe, rwds_oe, timeout_counter, ca_sent>>
    /\ TickX2

X2_CLEANUP ==
    /\ state = "CLEANUP"
    /\ cs' = 0
    /\ rwds_oe' = 0
    /\ dq_oe' = 0
    /\ Goto("HOLD-WAIT")
    /\ sr_out' = sr_out_shift
    /\ sr_rwds_out' = sr_rwds_out_shift
    /\ UNCHANGED <<clk, timeout_counter, ca_sent>>
    /\ TickX2

X2_HOLD_WAIT ==
    /\ state = "HOLD-WAIT"
    /\ sr_out' = Zeros(64)
    /\ sr_rwds_out' = 0
    /\ Goto("WAIT")
    /\ UNCHANGED <<clk, cs, dq_oe, rwds_oe, timeout_counter, ca_sent>>
    /\ TickX2

\* faulty variant: the recovery wait one tick short
X2_WAIT_one_short ==
    /\ state = "WAIT"
    /\ delayed_enter("IDLE", delay_WAIT - 1)
    /\ sr_out' = sr_out_shift
    /\ sr_rwds_out' = sr_rwds_out_shift
    /\ UNCHANGED <<clk, cs, dq_oe, rwds_oe, timeout_counter, ca_sent>>
    /\ TickX2

X2_WAIT ==
    /\ state = "WAIT"
    /\ delayed_enter("IDLE", delay_WAIT)
    /\ sr_out' = sr_out_shift
    /\ sr_rwds_out' = sr_rwds_out_shift
    /\ UNCHANGED <<clk, cs, dq_oe, rwds_oe, timeout_counter, ca_sent>>
    /\ TickX2

InitX2(h) ==
    /\ core = "HyperRAMX2" /\ host = h /\ dw = 8
    /\ bus_cyc \in Bit /\ bus_stb \in Bit /\ bus_we \in Bit
    /\ bus_cti \in CtiSet
    /\ rwds_i \in RwdsSet
    /\ bus_adr \in (IF h = "free" THEN AdrFree ELSE AdrHold)
    /\ bus_dat_w \in (IF h = "free" THEN DatFree ELSE DatHold)
    /\ bus_sel \in (IF h = "free" THEN SelFree ELSE SelHold)
    /\ dq_i \in (IF h \in {"free", "strobing"} THEN DqFree ELSE DqHold)
    /\ ResetCommon /\ ResetA /\ ResetX2

NextX2 ==
    \/ X2_IDLE \/ X2_CA_SEND \/ X2_CA_WAIT \/ X2_LATENCY \/ X2_LATENCY_WAIT
    \/ X2_READ_WRITE_SETUP \/ X2_READ_WRITE \/ X2_READ_ACK
    \/ X2_CLK_OFF \/ X2_CLEANUP \/ X2_HOLD_WAIT \/ X2_WAIT

\* HyperRAMX2 with a host free to change every input on every tick
SpecX2 == InitX2("free") /\ [][NextX2]_vars

\* HyperRAMX2 with a host that holds we, cti, adr, dat_w and sel
SpecX2Hold == InitX2("hold") /\ [][NextX2]_vars

\* HyperRAMX2 with a host that keeps its request asserted: cyc = stb = 1 in
\* every tick, we and cti as first presented
InitX2Steady ==
    /\ InitX2("steady")
    /\ bus_cyc = 1 /\ bus_stb = 1

SpecX2Steady == InitX2Steady /\ [][NextX2]_vars

\* HyperRAMX2 with a host that keeps stb asserted and is free in cyc, we and
\* cti, the device free on rwds, and the clock ticking forever
InitX2Strobing ==
    /\ InitX2("strobing")
    /\ bus_stb = 1

SpecX2Fair == InitX2Strobing /\ [][NextX2]_vars /\ WF_vars(NextX2)

---------------------------------------------------------------------------
(* The command encoder on its own: ca for one (controller, dw, adr, we)    *)

\* addresses of the encoder's runs: at most MaxAdrOnes bits set, or all set
MaxAdrOnes == 2

RECURSIVE AdrWithOnes(_, _)
AdrWithOnes(k, width) ==
    IF k = 0 THEN {0}
    ELSE LET less == AdrWithOnes(k - 1, width)
         IN  less \cup {a + Pow2(b) : <<a, b>> \in
                            {ab \in less \X (0..(width - 1)) : BitAt(ab[1], ab[2]) = 0}}

AdrEnc(width) == AdrWithOnes(MaxAdrOnes, width) \cup {AllOnes(width)}

InitCA ==
    /\ core \in {"HyperRAM", "HyperRAMX2"}
    /\ dw \in (IF core = "HyperRAM" THEN {8, 16} ELSE {8})
    /\ host = "hold"
    /\ bus_adr \in AdrEnc(adr_width)
    /\ bus_we \in Bit
    /\ bus_cyc = 1 /\ bus_stb = 1 /\ bus_cti = 0 /\ bus_sel = 15
    /\ bus_dat_w = Zeros(32)
    /\ dq_i = (IF core = "HyperRAM" THEN Zeros(dw) ELSE Zeros(32))
    /\ rwds_i = 0
    /\ ResetCommon /\ ResetA /\ ResetX2

\* the encoder's output for the request on the bus
Encode ==
    /\ enc_pc = "idle"
    /\ enc_ca' = ca
    /\ enc_pc' = "done"
    /\ UNCHANGED <<config, inputs, common, regsA, regsX2, ca_sent, acks>>

NextCA == Encode

SpecCA == InitCA /\ [][NextCA]_vars

---------------------------------------------------------------------------
(* Claims about the command word                                           *)

\* C8: in both controllers, for every address and write flag, the command
\* word has bit 47 = NOT we, bit 45 = 1 and the reserved bit 46 = 0.
C8_DirectionAndBurstBits ==
    enc_pc = "done" =>
        /\ BitOf(enc_ca, 47) = Not(bus_we)
        /\ BitOf(enc_ca, 45) = 1
        /\ BitOf(enc_ca, 46) = 0

C8_Witness ==
    /\ enc_pc = "done" /\ core = "HyperRAM" /\ dw = 16
    /\ bus_we = 1 /\ bus_adr = AllOnes(adr_width_A)
    /\ BitOf(enc_ca, 47) = 0 /\ BitOf(enc_ca, 45) = 1

\* C9: in HyperRAM the address split round-trips.  dw = 16: the address is
\* ca[44:16], ca[2:1], ca[0] concatenated.  dw = 8: ca[0] is 0 and the
\* address is ca[44:16], ca[2:1] concatenated.
C9_AddressRoundTrip ==
    (enc_pc = "done" /\ core = "HyperRAM") =>
        IF dw = 16
        THEN bus_adr = 8 * Field(enc_ca, 16, 45) + 2 * Field(enc_ca, 1, 3) + Field(enc_ca, 0, 1)
        ELSE /\ BitOf(enc_ca, 0) = 0
             /\ bus_adr = 4 * Field(enc_ca, 16, 45) + Field(enc_ca, 1, 3)

C9_Witness ==
    /\ enc_pc = "done" /\ core = "HyperRAM" /\ dw = 16
    /\ bus_adr = Pow2(adr_width_A - 1) + 1
    /\ Field(enc_ca, 16, 45) = Pow2(adr_width_A - 4) /\ BitOf(enc_ca, 0) = 1

\* C10: in HyperRAMX2 the command word carries every bit of the 22-bit host
\* address: ca[44:16] = adr[21:2], ca[2:1] = adr[1:0], ca[0] = 0, so that no
\* two addresses share a command word.
C10_AllAddressBitsEncoded ==
    (enc_pc = "done" /\ core = "HyperRAMX2") =>
        /\ Field(enc_ca, 16, 45) = Bits(bus_adr, 2, adr_width_X2)
        /\ Field(enc_ca, 1, 3) = Bits(bus_adr, 0, 2)
        /\ BitOf(enc_ca, 0) = 0

---------------------------------------------------------------------------
(* Claims about HyperRAM, the fixed-timeline controller                    *)

\* C1: every accepted transaction produces exactly one bus.ack pulse of one
\* tick: bus.ack is high in the one tick after the schedule's ack event and
\* in no other.  While the schedule runs (counter # 0) the counter only
\* advances to the next tick of the schedule, whatever cyc and stb do, and
\* returns to 0 after the terminal marker; a schedule starts only from
\* counter = 0 with cyc and stb asserted.
C1_OneAckPerTransaction ==
    /\ [](core = "HyperRAM" => (bus_ack = 1 <=> counter = t_of(dw, "ack") + 1))
    /\ [][counter # 0 =>
            counter' = (IF counter = t_of(dw, "end") THEN 0 ELSE counter + 1)]_vars
    /\ [][(counter = 0 /\ counter' # 0) =>
            (bus_cyc = 1 /\ bus_stb = 1 /\ counter' = 1)]_vars

\* the acknowledgment tick of a write, the host still requesting
C1_Witness ==
    /\ core = "HyperRAM" /\ bus_ack = 1 /\ counter = t_of(dw, "ack") + 1
    /\ bus_cyc = 1 /\ bus_stb = 1 /\ BitOf(ca_sent, 47) = 0 /\ cs = 0

\* C5, as claimed: a 16-bit write to address 0 with full byte select has a
\* 2-tick data phase, so its one acknowledgment comes 3 + 12 + 44 + 2 + 2 =
\* 63 ticks after the schedule starts (64 when the tick the register takes
\* to show it is counted).
C5_ScenarioWrite16 ==
    /\ core = "HyperRAM" /\ host = "hold" /\ dw = 16
    /\ bus_we = 1 /\ bus_adr = 0 /\ bus_sel = 15

C5_AckAfterTwoTickDataPhase ==
    (C5_ScenarioWrite16 /\ bus_ack = 1) => counter \in {63, 64}

\* C5, amended: the command word is 0x200000000000; the data phase is two
\* 2-tick beats (4 ticks), so the one acknowledgment is set by the event at
\* 3 + 12 + 44 + 4 + 2 = 65 and bus.ack is high in tick 66 only; cs is high
\* from the tick after the command event (3) to the release event (63) and
\* low in every other tick; the schedule ends at 67.
C5_Write16Timeline ==
    C5_ScenarioWrite16 =>
        /\ ca = <<0, 0, 0, 0, 0, 32>>
        /\ (counter = 4 => sr = <<0, 0, 0, 0, 0, 32>>)
        /\ counter <= 67
        /\ (bus_ack = 1 <=> counter = 66)
        /\ (cs = 1 <=> (counter >= 4 /\ counter <= 63))

C5_Witness ==
    /\ C5_ScenarioWrite16 /\ bus_ack = 1 /\ counter = 66 /\ cs = 0
    /\ ca_sent = <<0, 0, 0, 0, 0, 32>>

\* C7 (HyperRAM): the controller never drives dq or rwds in a tick in which
\* the device does: not in the latency phase, and not in the data beats of
\* a transaction whose command word was sent with bit 47 = 1 (read).
C7_NoContentionA ==
    (/\ core = "HyperRAM"
     /\ \/ (counter > t_of(dw, "latency") /\ counter <= t_of(dw, "data0"))
        \/ /\ counter > t_of(dw, "data0") /\ counter <= t_of(dw, "release")
           /\ BitOf(ca_sent, 47) = 1)
    => (dq_oe = 0 /\ rwds_oe = 0)

\* C7 (HyperRAMX2): the same, for the latency states and for READ-WRITE and
\* READ-ACK of a transaction whose command word was sent with bit 47 = 1.
C7_NoContentionX2 ==
    (/\ core = "HyperRAMX2"
     /\ \/ state \in {"LATENCY-WAIT", "READ-WRITE-SETUP"}
        \/ state \in {"READ-WRITE", "READ-ACK"} /\ BitOf(ca_sent, 47) = 1)
    => (dq_oe = 0 /\ rwds_oe = 0)

---------------------------------------------------------------------------
(* Claims about HyperRAMX2, the burst FSM                                  *)

\* C2: in an incrementing-burst write (we = 1, cti = 0b010) with cyc held,
\* every tick spent in READ-WRITE asserts bus.ack (one acknowledgment per
\* beat), takes the beat (dat_w and ~sel go to the output shift registers)
\* and leaves the FSM in READ-WRITE, so N beats give N acknowledgments with
\* no state but READ-WRITE in between.
C2_BurstWriteBeats ==
    /\ []((state = "READ-WRITE" /\ bus_we = 1) => X2_bus_ack = 1)
    /\ [][(state = "READ-WRITE" /\ bus_we = 1 /\ bus_cti = 2 /\ bus_cyc = 1) =>
            /\ state' = "READ-WRITE"
            /\ X2_dq_o' = bus_dat_w
            /\ X2_rwds_o' = Inv(bus_sel, 4)
            /\ cs' = 1 /\ clk' = 1 /\ dq_oe' = 1]_vars

\* a second or later beat: the previous tick was a write beat of READ-WRITE
C2_Witness ==
    /\ state = "READ-WRITE" /\ bus_we = 1 /\ bus_cti = 2 /\ bus_cyc = 1
    /\ X2_bus_ack = 1
    /\ X2_dq_o = bus_dat_w /\ sr_rwds_out = 16 * Inv(bus_sel, 4)

\* C3, as claimed: without ready, READ-ACK is left within 21 ticks of being
\* entered.  timeout_counter is 0 when READ-ACK is entered and counts the
\* ticks spent there without ready, so no tick of READ-ACK would see it at 21.
C3_LeftWithin21Ticks ==
    state = "READ-ACK" => timeout_counter < 21

\* C3, amended: READ-ACK is entered with timeout_counter = 0; while ready is
\* not asserted and cyc is held it stays for the ticks with timeout_counter
\* 0..21, that is 22 ticks, and goes to CLK-OFF from the last one; bus.ack
\* is asserted in none of these ticks.
C3_LeftAfter22Ticks ==
    /\ [](state = "READ-WRITE" => timeout_counter = 0)
    /\ [](state = "READ-ACK" => (timeout_counter <= 21 /\ (ready = 0 => X2_bus_ack = 0)))
    /\ [][(state = "READ-ACK" /\ ready = 0 /\ bus_cyc = 1) =>
            IF timeout_counter = 21
            THEN state' = "CLK-OFF"
            ELSE state' = "READ-ACK" /\ timeout_counter' = timeout_counter + 1]_vars

C3_Witness ==
    /\ state = "READ-ACK" /\ timeout_counter = 21
    /\ ready = 0 /\ bus_cyc = 1 /\ X2_bus_ack = 0

\* C4, as claimed: when ready is first asserted in the tick 3 after READ-ACK
\* was entered, bus.ack is asserted and bus.dat_r is phy.dq.i of that tick.
C4_DatRIsDqOfSameTick ==
    (state = "READ-ACK" /\ timeout_counter = 3 /\ ready = 1 /\ bus_cti # 2) =>
        (X2_bus_ack = 1 /\ X2_dat_r = dq_i)

\* C4, amended: in READ-ACK bus.ack is asserted in exactly the ticks in
\* which ready is (so not before the tick of the first ready), and in such a
\* tick bus.dat_r[15:0] is phy.dq.i[31:16] of that tick and bus.dat_r[31:16]
\* is phy.dq.i[15:0] of the tick before.
C4_DatRStraddlesTwoTicks ==
    /\ [](state = "READ-ACK" => (X2_bus_ack = 1 <=> ready = 1))
    /\ [][(state' = "READ-ACK" /\ ready' = 1) =>
            /\ Slice(X2_dat_r', 0, 16) = Slice(dq_i', 16, 32)
            /\ Slice(X2_dat_r', 16, 32) = Slice(dq_i, 0, 16)]_vars

C4_Witness ==
    /\ state = "READ-ACK" /\ timeout_counter = 3 /\ ready = 1 /\ bus_cti # 2
    /\ X2_bus_ack = 1
    /\ Slice(sr_in, 0, 16) # Slice(dq_i, 0, 16)
    /\ X2_dat_r # dq_i

\* C6: in IDLE and in every tick of WAIT cs is low and neither phy.dq.oe nor
\* phy.rwds.oe is asserted; and clk (phy.clk_enable) is high only while cs
\* is, for every host and device input.
C6_IdleSafety ==
    /\ state \in {"IDLE", "WAIT"} => (cs = 0 /\ dq_oe = 0 /\ rwds_oe = 0)
    /\ clk = 1 => cs = 1

\* the last tick of WAIT after a write, with the host already requesting
C6_Witness ==
    /\ state = "WAIT" /\ anon = delay_WAIT - 1
    /\ BitOf(ca_sent, 45) = 1 /\ BitOf(ca_sent, 47) = 0
    /\ bus_cyc = 1 /\ bus_stb = 1
    /\ cs = 0 /\ dq_oe = 0 /\ rwds_oe = 0 /\ clk = 0

---------------------------------------------------------------------------
(* Claims about the order and completion of a transaction                  *)

\* C11: the burst FSM leaves IDLE only in a tick with cyc and stb asserted,
\* and only to CA-SEND; from there it goes CA-SEND, CA-WAIT, LATENCY,
\* LATENCY-WAIT (exactly latency - 3 ticks), READ-WRITE-SETUP, READ-WRITE in
\* this order whatever the host and the device present; CA-SEND is entered
\* from IDLE only and cs rises in IDLE only, so no second transaction starts
\* before the FSM is back in IDLE.
C11_CommandLatencyDataOrder ==
    /\ [](state = "LATENCY-WAIT" => anon < latency_x2 - 3)
    /\ [][(state = "IDLE" /\ state' # "IDLE") =>
            (bus_cyc = 1 /\ bus_stb = 1 /\ state' = "CA-SEND")]_vars
    /\ [][(state = "IDLE" /\ bus_cyc = 1 /\ bus_stb = 1) => state' = "CA-SEND"]_vars
    /\ [][state' = "CA-SEND" => state = "IDLE"]_vars
    /\ [][state = "CA-SEND" => state' = "CA-WAIT"]_vars
    /\ [][state' = "CA-WAIT" => state = "CA-SEND"]_vars
    /\ [][state = "CA-WAIT" => state' = "LATENCY"]_vars
    /\ [][state' = "LATENCY" => state = "CA-WAIT"]_vars
    /\ [][state = "LATENCY" => (state' = "LATENCY-WAIT" /\ anon' = 0)]_vars
    /\ [][state = "LATENCY-WAIT" =>
            IF anon = latency_x2 - 3 - 1
            THEN state' = "READ-WRITE-SETUP"
            ELSE state' = "LATENCY-WAIT" /\ anon' = anon + 1]_vars
    /\ [][state' = "LATENCY-WAIT" => state \in {"LATENCY", "LATENCY-WAIT"}]_vars
    /\ [][state' = "READ-WRITE-SETUP" => state = "LATENCY-WAIT"]_vars
    /\ [][state = "READ-WRITE-SETUP" => state' = "READ-WRITE"]_vars
    /\ [][state' = "READ-WRITE" => state \in {"READ-WRITE-SETUP", "READ-WRITE"}]_vars
    /\ [][(cs = 0 /\ cs' = 1) => state = "IDLE"]_vars

\* the last tick of LATENCY-WAIT, the host having withdrawn its request
C11_Witness ==
    /\ state = "LATENCY-WAIT" /\ anon = latency_x2 - 3 - 1
    /\ bus_cyc = 0 /\ bus_stb = 0 /\ cs = 1 /\ clk = 1

\* C12: once the schedule of HyperRAM has started it runs to completion: the
\* counter advances by one in every tick, whatever cyc and stb do, up to the
\* last event and returns to 0 after it, and each event of the schedule
\* (command, latency, data, release, acknowledgment) acts at its time.
C12_ScheduleRunsToCompletion ==
    /\ [](core = "HyperRAM" => counter <= lastevent(dw))
    /\ [][counter # 0 =>
            counter' = (IF counter = lastevent(dw) THEN 0 ELSE counter + 1)]_vars
    /\ [][counter = t_of(dw, "command") =>
            (cs' = 1 /\ dq_oe' = 1 /\ ca_active' = 1 /\ sr' = ca)]_vars
    /\ [][counter = t_of(dw, "latency") => (dq_oe' = 0 /\ ca_active' = 0)]_vars
    /\ [][counter = t_of(dw, "data0") =>
            (dq_oe' = bus_we /\ rwds_oe' = bus_we /\ Slice(sr', 16, 48) = bus_dat_w)]_vars
    /\ [][counter = t_of(dw, "release") =>
            (cs' = 0 /\ dq_oe' = 0 /\ rwds_oe' = 0)]_vars
    /\ [][counter = t_of(dw, "ack") => bus_ack' = 1]_vars
    /\ [][counter = t_of(dw, "ack_end") => bus_ack' = 0]_vars

\* the acknowledgment tick of a schedule whose host has dropped cyc and stb
C12_Witness ==
    /\ core = "HyperRAM" /\ counter = t_of(dw, "ack") + 1 /\ bus_ack = 1
    /\ bus_cyc = 0 /\ bus_stb = 0

\* C13: when cyc is deasserted in a tick of READ-WRITE or READ-ACK the FSM
\* leaves that state in that tick (READ-WRITE to CLEANUP with clk cleared,
\* READ-ACK to CLK-OFF), CLK-OFF goes to CLEANUP, CLEANUP to HOLD-WAIT,
\* HOLD-WAIT to WAIT, and IDLE is entered from WAIT only; in IDLE clk, cs,
\* phy.dq.oe and phy.rwds.oe are all deasserted.
C13_CancelUnwinds ==
    /\ [](state = "IDLE" => (clk = 0 /\ cs = 0 /\ dq_oe = 0 /\ rwds_oe = 0))
    /\ [][(state = "READ-WRITE" /\ bus_cyc = 0) =>
            (state' = "CLEANUP" /\ clk' = 0)]_vars
    /\ [][(state = "READ-ACK" /\ bus_cyc = 0) => state' = "CLK-OFF"]_vars
    /\ [][state = "CLK-OFF" => (state' = "CLEANUP" /\ clk' = 0)]_vars
    /\ [][state = "CLEANUP" =>
            (state' = "HOLD-WAIT" /\ cs' = 0 /\ dq_oe' = 0 /\ rwds_oe' = 0)]_vars
    /\ [][state = "HOLD-WAIT" => (state' = "WAIT" /\ anon' = 0)]_vars
    /\ [][state = "WAIT" => state' \in {"WAIT", "IDLE"}]_vars
    /\ [][(state' = "IDLE" /\ state # "IDLE") => state = "WAIT"]_vars

\* CLK-OFF entered from READ-ACK before the timeout: the host dropped cyc
C13_Witness ==
    /\ state = "CLK-OFF" /\ timeout_counter = 5
    /\ clk = 1 /\ cs = 1 /\ BitOf(ca_sent, 47) = 1

---------------------------------------------------------------------------
(* Claims about acknowledgments and retries of the burst FSM               *)

\* C14: no internal retry.  timeout_counter is timeout_limit + 2 from the
\* tick in which READ-ACK gives up on ready until the next command phase has
\* been sent; with the host holding its unacknowledged request (cyc and stb
\* asserted in every tick) the FSM then sends no further command: it is in
\* none of the command states.
C14_NoRetryAfterTimeout ==
    (core = "HyperRAMX2" /\ timeout_counter = timeout_limit + 2) =>
        state \notin {"CA-SEND", "CA-WAIT"}

\* C15: a non-burst transaction (cti # 0b010) of a host that holds cyc, we and
\* cti has, by the time it is in WAIT, seen bus.ack in exactly one tick if it
\* is a write, in exactly one tick if it is a read whose ready was observed,
\* and in no tick if it is a read that timed out; a tick with bus.ack is
\* followed by a tick without.
C15_AcksPerTransaction ==
    /\ []((state = "WAIT" /\ bus_cti # 2) =>
            acks = (IF bus_we = 1 THEN 1
                    ELSE IF timeout_counter = timeout_limit + 2 THEN 0 ELSE 1))
    /\ []((state \in {"CA-SEND", "CA-WAIT", "LATENCY", "LATENCY-WAIT",
                      "READ-WRITE-SETUP"}) => (acks = 0 /\ X2_bus_ack = 0))
    /\ [][(bus_cti # 2 /\ X2_bus_ack = 1) => X2_bus_ack' = 0]_vars

\* the last tick of WAIT of a read that was acknowledged once
C15_Witness ==
    /\ state = "WAIT" /\ anon = delay_WAIT - 1 /\ host = "steady"
    /\ bus_cti # 2 /\ bus_we = 0 /\ timeout_counter = 0 /\ acks = 1

\* C20: bus.ack is asserted only in ticks in which the host asserts cyc.
C20_AckOnlyWithCyc ==
    X2_bus_ack = 1 => bus_cyc = 1

---------------------------------------------------------------------------
(* Claims about clock phase and write data of HyperRAM                     *)

\* C16: a schedule of HyperRAM starts only in a tick with clk_phase = 1, so
\* clk_phase = (counter + 1) mod 4 in every tick of a running schedule, and
\* the pad clock is high only in ticks in which cs is asserted, for every
\* host and both bus widths.
C16_StartPhaseAndGatedClock ==
    /\ [](core = "HyperRAM" =>
            /\ counter # 0 => clk_phase = (counter + 1) % 4
            /\ clk = 1 => cs = 1)
    /\ [][(counter = 0 /\ counter' # 0) => clk_phase = 1]_vars

\* the last clock pulse of a transaction, the host no longer requesting
C16_Witness ==
    /\ core = "HyperRAM" /\ counter = t_of(dw, "release") - 1
    /\ clk = 1 /\ cs = 1 /\ clk_phase = 3 /\ bus_cyc = 0

\* C17: in a write of a host that holds we, dat_w and sel, the data phase is
\* the 32 / dw beats of 2 ticks after the first data event; in beat b (from
\* 0) dq.o is the b-th dw-bit part of dat_w from the top, and rwds.o is
\* (~sel[3], ~sel[2]) then (~sel[1], ~sel[0]) for dw = 16, rwds.o[0] =
\* ~sel[3 - b] for dw = 8; rwds.oe is asserted in exactly these ticks, dq.oe
\* in these and in the ticks of the command phase.
C17_WriteBeats ==
    (core = "HyperRAM" /\ host = "hold" /\ bus_we = 1) =>
        LET first  == t_of(dw, "data0") + 1
            last   == t_of(dw, "release")
            inData == counter >= first /\ counter <= last
            inCmd  == counter > t_of(dw, "command") /\ counter <= t_of(dw, "latency")
            b      == (counter - first) \div 2
        IN  /\ last - first + 1 = 2 * (32 \div dw)
            /\ rwds_oe = 1 <=> inData
            /\ dq_oe = 1 <=> (inData \/ inCmd)
            /\ inData =>
                /\ HyperRAM_dq_o = Slice(bus_dat_w, 32 - dw * (b + 1), 32 - dw * b)
                /\ IF dw = 16
                   THEN HyperRAM_rwds_o = 2 * Not(BitAt(bus_sel, 3 - 2 * b))
                                          + Not(BitAt(bus_sel, 2 - 2 * b))
                   ELSE BitAt(HyperRAM_rwds_o, 0) = Not(BitAt(bus_sel, 3 - b))

\* the second tick of the last beat of an 8-bit write of 0x12345678 with
\* sel = 0b1101
C17_Witness ==
    /\ core = "HyperRAM" /\ host = "hold" /\ dw = 8
    /\ bus_we = 1 /\ bus_sel = 13 /\ bus_dat_w = Word32(4660, 22136)
    /\ counter = t_of(dw, "release")
    /\ HyperRAM_dq_o = <<120>> /\ HyperRAM_rwds_o = 0 /\ dq_oe = 1 /\ rwds_oe = 1

---------------------------------------------------------------------------
(* Claims about recovery and termination of the burst FSM                  *)

\* C18: WAIT lasts exactly 10 ticks: it is entered from HOLD-WAIT with cs
\* low, steps through its 10 ticks whatever the host presents and only its
\* last tick goes to IDLE; cs is low in all of them and rises only in IDLE,
\* so cs stays low for at least 10 ticks after it was deasserted.
C18_WaitTenTicks ==
    /\ [](state = "WAIT" => (anon < 10 /\ cs = 0))
    /\ [][(state' = "WAIT" /\ state # "WAIT") =>
            (state = "HOLD-WAIT" /\ anon' = 0 /\ cs = 0)]_vars
    /\ [][state = "WAIT" =>
            IF anon = 10 - 1 THEN state' = "IDLE"
            ELSE state' = "WAIT" /\ anon' = anon + 1]_vars
    /\ [][(state' = "IDLE" /\ state # "IDLE") => (state = "WAIT" /\ anon = 10 - 1)]_vars
    /\ [][(cs = 0 /\ cs' = 1) => state = "IDLE"]_vars
    /\ [][(cs = 1 /\ cs' = 0) => state = "CLEANUP"]_vars

\* the last tick of WAIT after a timed-out read, the host requesting again
C18_Witness ==
    /\ state = "WAIT" /\ anon = 10 - 1 /\ cs = 0
    /\ timeout_counter = timeout_limit + 2
    /\ bus_cyc = 1 /\ bus_stb = 1

\* C19: with the clock ticking, the FSM is in IDLE again and again, unless
\* the host again and again presents cti = 0b010 with cyc asserted in a tick
\* of READ-WRITE or READ-ACK (keeps a burst going forever), whatever the
\* device does on the ready line.
C19_ReturnsToIdle ==
    \/ []<>(state = "IDLE")
    \/ []<>(state \in {"READ-WRITE", "READ-ACK"} /\ bus_cti = 2 /\ bus_cyc = 1)

\* a non-burst read of a silent device in its last tick of READ-ACK
C19_Witness ==
    /\ state = "READ-ACK" /\ bus_cti = 0 /\ bus_cyc = 1 /\ ready = 0
    /\ timeout_counter = timeout_limit + 1 /\ host = "strobing"

=============================================================================
